---- MODULE Spec2Model ----
(***************************************************************************)
(* A model of src/model/Component.ts: the component model's option merging *)
(* (mergeDefaultAndTheme, mergeOption), its inheritance-merged default     *)
(* option (getDefaultOption) and the dependency getter handed to the       *)
(* topological travel (getDependencies).                                   *)
(***************************************************************************)
EXTENDS Integers, Sequences, FiniteSets, TLC

\* ------------------------------------------------------------------------
\* Bounds of the model.
\* ------------------------------------------------------------------------

\* The longest `dependencies` list a registered class declares.
MaxDeps == 1

\* The number of mergeOption calls an instance receives.
MaxPatches == 2

\* The number of instances created of the extended classes.
MaxModels == 2

\* The number of getDefaultOption calls made on one instance after init.
MaxCalls == 2

\* ------------------------------------------------------------------------
\* Part I: the class registry and getDependencies.
\* ------------------------------------------------------------------------

\* A component type identifier "main" or "main.sub" is a sequence of
\* tokens in which "." is the separator: "axis.s1" is <<"axis", ".", "s1">>.
Dot == "."

MainTypes == {"dataset", "grid"}

\* The (main, sub) pairs component kinds register under.
Slots == { <<"grid", "s1">>, <<"grid", "s2">>, <<"dataset", "s1">> }

\* The identifiers a `dependencies` list is made of.
DepIdents == { <<"dataset">>, <<"axis">>, <<"axis", Dot, "s1">> }

RECURSIVE SeqsUpTo(_, _)
SeqsUpTo(S, n) ==
    IF n = 0 THEN { <<>> }
    ELSE LET shorter == SeqsUpTo(S, n - 1)
         IN  shorter \cup { Append(s, x) : s \in { t \in shorter : Len(t) = n - 1 }, x \in S }

\* What a class's prototype holds under `dependencies`: nothing, or a list.
Declared ==
    { [has |-> FALSE, list |-> <<>>] }
        \cup { [has |-> TRUE, list |-> l] : l \in SeqsUpTo(DepIdents, MaxDeps) }

VARIABLES
    storage,    \* the class registry: registered classes, in registration order
    queried,    \* the componentType of the last getDependencies call, <<>> if none
    deps,       \* what that call returned
    classes,    \* the component classes: superClass, defaultOption, layoutMode
    theme,      \* ecModel.getTheme().get(mainType): an option fragment or undefined
    models,     \* the component model instances, in creation order
    patches     \* the options handed to mergeOption so far, oldest first

vars == <<storage, queried, deps, classes, theme, models, patches>>

\* parseClassType(componentType).main: the part before the first ".".
parseMain(componentType) ==
    IF componentType = <<>> \/ Head(componentType) = Dot THEN "" ELSE Head(componentType)

\* zrUtil.indexOf: the 0-based index of the first occurrence, -1 if none.
indexOf(array, value) ==
    IF \E i \in 1..Len(array) : array[i] = value
    THEN (CHOOSE i \in 1..Len(array) :
              array[i] = value /\ \A j \in 1..(i - 1) : array[j] # value) - 1
    ELSE -1

\* zrUtil.map(deps, type => parseClassType(type).main)
mapToMain(array) == [i \in 1..Len(array) |-> parseMain(array[i])]

\* ClassManager.getClassesByMainType: every class registered under the main
\* type, across all subtypes, in registration order.
getClassesByMainType(componentType) ==
    SelectSeq(storage, LAMBDA clz : clz.main = parseMain(componentType))

\* clz.prototype.dependencies || []
dependenciesOf(clz) == IF clz.has THEN clz.list ELSE <<>>

RECURSIVE concatAll(_)
concatAll(clzList) ==
    IF clzList = <<>> THEN <<>>
    ELSE dependenciesOf(Head(clzList)) \o concatAll(Tail(clzList))

\* A variant that forgets the test for the dataset main type itself.
getDependenciesAlwaysHack(componentType) ==
    LET declared == mapToMain(concatAll(getClassesByMainType(componentType)))
    IN  IF indexOf(declared, "dataset") <= 0
        THEN <<"dataset">> \o declared
        ELSE declared

\* A variant without the dataset hack.
getDependenciesNoHack(componentType) ==
    mapToMain(concatAll(getClassesByMainType(componentType)))

RECURSIVE dedupe(_)
dedupe(s) ==
    IF s = <<>> THEN <<>>
    ELSE LET front == dedupe(SubSeq(s, 1, Len(s) - 1))
             last  == s[Len(s)]
         IN  IF indexOf(front, last) >= 0 THEN front ELSE Append(front, last)

\* A variant that removes repeated main types from the result.
getDependenciesDedupe(componentType) ==
    LET declared == dedupe(mapToMain(concatAll(getClassesByMainType(componentType))))
    IN  IF componentType # <<"dataset">> /\ indexOf(declared, "dataset") <= 0
        THEN <<"dataset">> \o declared
        ELSE declared

\* getDependencies(componentType)
getDependencies(componentType) ==
    LET declared == mapToMain(concatAll(getClassesByMainType(componentType)))
    IN  IF componentType # <<"dataset">> /\ indexOf(declared, "dataset") <= 0
        THEN <<"dataset">> \o declared
        ELSE declared

\* registerClass: stores the class under (main, sub); registering the same
\* pair again overwrites the entry in place.
registerClass(main, sub, declared) ==
    LET clz == [main |-> main, sub |-> sub, has |-> declared.has, list |-> declared.list]
    IN  IF \E i \in 1..Len(storage) : storage[i].main = main /\ storage[i].sub = sub
        THEN [i \in 1..Len(storage) |->
                 IF storage[i].main = main /\ storage[i].sub = sub THEN clz ELSE storage[i]]
        ELSE Append(storage, clz)

NoRegistry ==
    /\ storage = <<>>
    /\ queried = <<>>
    /\ deps = <<>>

\* A component kind registers itself at load time, before any resolution.
Register ==
    /\ queried = <<>>
    /\ \E slot \in Slots, declared \in Declared :
           storage' = registerClass(slot[1], slot[2], declared)
    /\ UNCHANGED <<queried, deps, classes, theme, models, patches>>

\* The topological travel asks for the dependencies of a main type.
GetDependencies ==
    \E main \in MainTypes :
        /\ queried' = <<main>>
        /\ deps' = getDependencies(<<main>>)
        /\ UNCHANGED <<storage, classes, theme, models, patches>>

\* ------------------------------------------------------------------------
\* Part II: option values and the merge primitives.
\* ------------------------------------------------------------------------

\* An option value is a record: p = 0 for a plain object, whose properties
\* are the function o; p > 0 for a primitive (a number, a string, an array:
\* anything merge copies whole); p < 0 for undefined and null.
NoProps == [key \in {} |-> 0]

Prim(n) == [p |-> n, o |-> NoProps]
Obj(props) == [p |-> 0, o |-> props]
Undefined == Prim(-1)
Null == Prim(-2)
EmptyObject == Obj(NoProps)

\* zrUtil.isObject
isObject(value) == value.p = 0

hasProp(obj, name) == isObject(obj) /\ name \in DOMAIN obj.o

\* obj[name]
prop(obj, name) == IF hasProp(obj, name) THEN obj.o[name] ELSE Undefined

\* zrUtil.merge(target, source, overwrite)
RECURSIVE merge(_, _, _)
merge(target, source, overwrite) ==
    IF ~isObject(source) \/ ~isObject(target)
    THEN IF overwrite THEN source ELSE target
    ELSE Obj([key \in DOMAIN target.o \cup DOMAIN source.o |->
                IF key \notin DOMAIN source.o
                THEN target.o[key]
                ELSE IF isObject(source.o[key]) /\ isObject(prop(target, key))
                     THEN merge(target.o[key], source.o[key], overwrite)
                     ELSE IF overwrite \/ key \notin DOMAIN target.o
                          THEN source.o[key]
                          ELSE target.o[key]])

\* layout.LOCATION_PARAMS and layout.HV_NAMES
LOCATION_PARAMS == {"left", "right", "top", "bottom", "width", "height"}
HV_NAMES == << <<"width", "left", "right">>, <<"height", "top", "bottom">> >>

\* layout.getLayoutParams(source): the position and size fields source owns.
getLayoutParams(source) ==
    Obj([name \in { n \in LOCATION_PARAMS : hasProp(source, n) } |-> source.o[name]])

\* hasValue in layout.mergeLayoutParam: neither null nor undefined
hasValue(obj, name) == hasProp(obj, name) /\ obj.o[name].p >= 0

\* layoutMode.ignoreSize of a layout mode ('box', or {ignoreSize: true})
ignoreSize(layoutMode) == layoutMode = "ignoreSize"

\* The inner function merge(names, hvIdx) of layout.mergeLayoutParam.
mergeHV(targetOption, newOption, names, layoutMode) ==
    LET all == { names[i] : i \in 1..3 }
        given == { n \in all : hasProp(newOption, n) }
        newParams == [n \in given |-> newOption.o[n]]
        merged == [n \in all |-> IF n \in given THEN newOption.o[n] ELSE prop(targetOption, n)]
        newValueCount == Cardinality({ n \in given : newParams[n].p >= 0 })
        mergedValueCount == Cardinality({ n \in all : merged[n].p >= 0 })
        free == { i \in 1..3 : names[i] \notin given /\ hasProp(targetOption, names[i]) }
        first == CHOOSE i \in free : \A j \in free : i <= j
    IN  IF ignoreSize(layoutMode)
        THEN IF hasValue(newOption, names[2]) THEN [merged EXCEPT ![names[3]] = Null]
             ELSE IF hasValue(newOption, names[3]) THEN [merged EXCEPT ![names[2]] = Null]
             ELSE merged
        ELSE IF mergedValueCount = 2 \/ newValueCount = 0 THEN merged
        ELSE IF newValueCount >= 2 THEN newParams
        ELSE IF free = {} THEN newParams
        ELSE [n \in given \cup {names[first]} |->
                 IF n \in given THEN newParams[n] ELSE targetOption.o[n]]

\* layout.mergeLayoutParam(targetOption, newOption, layoutMode)
mergeLayoutParam(targetOption, newOption, layoutMode) ==
    LET hResult == mergeHV(targetOption, newOption, HV_NAMES[1], layoutMode)
        vResult == mergeHV(targetOption, newOption, HV_NAMES[2], layoutMode)
        copied(n) == IF n \in DOMAIN hResult THEN hResult[n]
                     ELSE IF n \in DOMAIN vResult THEN vResult[n]
                     ELSE Undefined
    IN  Obj([n \in DOMAIN targetOption.o \cup LOCATION_PARAMS |->
                IF n \in LOCATION_PARAMS THEN copied(n) ELSE targetOption.o[n]])

\* ------------------------------------------------------------------------
\* Part III: the component model.
\* ------------------------------------------------------------------------

\* The class every component class derives from; it declares no defaultOption.
ComponentModel ==
    [superClass |-> "", extended |-> FALSE, has |-> FALSE,
     defaultOption |-> Undefined, layoutMode |-> ""]

\* clazz.isExtendedClass(ctor): the class was made by Component.extend.
isExtendedClass(ctor) == classes[ctor].extended

\* clz.prototype.defaultOption, looked up along the prototype chain.
RECURSIVE prototypeDefaultOption(_)
prototypeDefaultOption(clz) ==
    IF classes[clz].has THEN classes[clz].defaultOption
    ELSE IF classes[clz].superClass = "" THEN Undefined
    ELSE prototypeDefaultOption(classes[clz].superClass)

\* The while loop of getDefaultOption: the defaultOption of the class and of
\* each superClass, most derived first, the falsy ones left out.
RECURSIVE optList(_)
optList(clz) ==
    IF clz = "" THEN <<>>
    ELSE LET opt == prototypeDefaultOption(clz)
         IN  (IF opt.p >= 0 THEN <<opt>> ELSE <<>>) \o optList(classes[clz].superClass)

\* The for loop of getDefaultOption, i from i down to 0 (list[i + 1] here).
RECURSIVE mergeDown(_, _, _)
mergeDown(defaultOption, list, i) ==
    IF i = 0 THEN defaultOption
    ELSE mergeDown(merge(defaultOption, list[i], TRUE), list, i - 1)

\* A variant whose loop runs from the most derived class to the base.
RECURSIVE mergeUp(_, _, _)
mergeUp(defaultOption, list, i) ==
    IF i > Len(list) THEN defaultOption
    ELSE mergeUp(merge(defaultOption, list[i], TRUE), list, i + 1)

walkWrongOrder(ctor) == mergeUp(EmptyObject, optList(ctor), 1)

\* The chain walk and merge of getDefaultOption (lines 234-245).
walk(ctor) == mergeDown(EmptyObject, optList(ctor), Len(optList(ctor)))

\* A variant that ignores the cached fields.defaultOption.
getDefaultOptionNoCache(self) ==
    IF ~isExtendedClass(self.ctor)
    THEN [self |-> self, ret |-> prototypeDefaultOption(self.ctor)]
    ELSE [self |-> [self EXCEPT !.inner = walk(self.ctor), !.walks = @ + 1],
          ret  |-> walk(self.ctor)]

\* getDefaultOption(): the instance after the call and the value returned.
getDefaultOption(self) ==
    IF ~isExtendedClass(self.ctor)
    THEN [self |-> self, ret |-> prototypeDefaultOption(self.ctor)]
    ELSE IF self.inner.p < 0
         THEN [self |-> [self EXCEPT !.inner = walk(self.ctor), !.walks = @ + 1],
               ret  |-> walk(self.ctor)]
         ELSE [self |-> self, ret |-> self.inner]

\* A variant that takes the position snapshot after the merges.
mergeDefaultAndThemeLateSnapshot(self, option) ==
    LET layoutMode == classes[self.ctor].layoutMode
        got == getDefaultOption(self)
        merged == merge(merge(option, theme, FALSE), got.ret, FALSE)
        inputPositionParams == IF layoutMode # "" THEN getLayoutParams(merged) ELSE EmptyObject
    IN  [got.self EXCEPT
            !.inputPositionParams = inputPositionParams,
            !.option = IF layoutMode # ""
                       THEN mergeLayoutParam(merged, inputPositionParams, layoutMode)
                       ELSE merged,
            !.log = @ \o <<"mergeDefaultAndTheme">>]

\* A variant that merges the default option before the theme.
mergeDefaultAndThemeDefaultFirst(self, option) ==
    LET layoutMode == classes[self.ctor].layoutMode
        inputPositionParams == IF layoutMode # "" THEN getLayoutParams(option) ELSE EmptyObject
        got == getDefaultOption(self)
        merged == merge(merge(option, got.ret, FALSE), theme, FALSE)
    IN  [got.self EXCEPT
            !.inputPositionParams = inputPositionParams,
            !.option = IF layoutMode # ""
                       THEN mergeLayoutParam(merged, inputPositionParams, layoutMode)
                       ELSE merged,
            !.log = @ \o <<"mergeDefaultAndTheme">>]

\* mergeDefaultAndTheme(option, ecModel); option is this.option, merged in place.
mergeDefaultAndTheme(self, option) ==
    LET layoutMode == classes[self.ctor].layoutMode
        inputPositionParams == IF layoutMode # "" THEN getLayoutParams(option) ELSE EmptyObject
        got == getDefaultOption(self)
        merged == merge(merge(option, theme, FALSE), got.ret, FALSE)
    IN  [got.self EXCEPT
            !.inputPositionParams = inputPositionParams,
            !.option = IF layoutMode # ""
                       THEN mergeLayoutParam(merged, inputPositionParams, layoutMode)
                       ELSE merged,
            !.log = @ \o <<"mergeDefaultAndTheme">>]

\* A variant of mergeOption that keeps the fields the instance already has.
mergeOptionKeepOld(self, option) ==
    LET layoutMode == classes[self.ctor].layoutMode
        merged == merge(self.option, option, FALSE)
    IN  [self EXCEPT
            !.option = IF layoutMode # ""
                       THEN mergeLayoutParam(merged, option, layoutMode)
                       ELSE merged,
            !.log = @ \o <<"mergeOption">>]

\* mergeOption(option, ecModel)
mergeOption(self, option) ==
    LET layoutMode == classes[self.ctor].layoutMode
        merged == merge(self.option, option, TRUE)
    IN  [self EXCEPT
            !.option = IF layoutMode # ""
                       THEN mergeLayoutParam(merged, option, layoutMode)
                       ELSE merged,
            !.log = @ \o <<"mergeOption">>]

\* optionUpdated(newCptOption, isInit): the hook, empty in ComponentModel.
optionUpdated(self, isInit) ==
    [self EXCEPT !.log = @ \o <<IF isInit THEN "optionUpdated(init)" ELSE "optionUpdated">>]

\* new ctor(option, parentModel, ecModel): Model's constructor keeps the
\* option; nothing is merged yet.
construct(ctor, option) ==
    [ctor |-> ctor, option |-> option, input |-> option,
     inputPositionParams |-> EmptyObject, inner |-> Undefined, walks |-> 0,
     calls |-> 0, returned |-> Undefined, log |-> <<"constructor">>]

\* A variant of init that leaves the option as it was given.
initNoMerge(self, option) == self

\* init(option, parentModel, ecModel)
init(self, option) == mergeDefaultAndTheme(self, option)

\* The document resolver's construction of a component: the constructor,
\* init, then the optionUpdated hook with isInit = true.
createComponent(ctor, option) ==
    optionUpdated(init(construct(ctor, option), option), TRUE)

\* The document resolver's update of an existing component.
updateComponent(self, option) ==
    optionUpdated(mergeOption(self, option), FALSE)


\* ------------------------------------------------------------------------
\* Part IV: inputs, actions and specifications.
\* ------------------------------------------------------------------------

Keys == {"a", "b"}
SubKeys == {"x", "y"}
LayoutKeys == {"left", "right", "width", "top", "a"}

\* The plain objects over SubKeys whose values are the primitive v.
Nested(v) == { Obj([k \in D |-> Prim(v)]) : D \in SUBSET SubKeys }

\* The option objects over `keys` whose primitives are all v (so that a
\* value tells which input it came from); the keys in `nestable` may hold a
\* nested plain object.
Options(v, keys, nestable) ==
    UNION { { Obj(f) : f \in { g \in [D -> {Prim(v)} \cup Nested(v)] :
                                  \A k \in D : k \in nestable \/ ~isObject(g[k]) } }
            : D \in SUBSET keys }

\* A class written as a class declaration: getDefaultOption returns its
\* prototype's defaultOption as it is.
Declaration(defaultOption, layoutMode) ==
    [superClass |-> "ComponentModel", extended |-> FALSE, has |-> defaultOption.p >= 0,
     defaultOption |-> defaultOption, layoutMode |-> layoutMode]

\* A class made by superClass.extend({defaultOption: ...}).
Extended(superClass, defaultOption) ==
    [superClass |-> superClass, extended |-> TRUE, has |-> defaultOption.p >= 0,
     defaultOption |-> defaultOption, layoutMode |-> ""]

NoModels ==
    /\ models = <<>>
    /\ patches = <<>>

\* The resolver creates a component of class ctor from a raw option.
Create(ctors, options, limit) ==
    /\ Len(models) < limit
    /\ \E ctor \in ctors, option \in options :
           models' = Append(models, createComponent(ctor, option))
    /\ UNCHANGED <<storage, queried, deps, classes, theme, patches>>

\* The resolver patches the component with a new option.
Patch ==
    /\ Len(patches) < MaxPatches
    /\ \E option \in Options(Len(patches) + 2, Keys, {"a"}) :
           /\ models' = [models EXCEPT ![1] = updateComponent(@, option)]
           /\ patches' = Append(patches, option)
    /\ UNCHANGED <<storage, queried, deps, classes, theme>>

\* A component implementation asks an instance for its default option.
CallGetDefaultOption ==
    /\ \E i \in 1..Len(models) :
           /\ models[i].calls < MaxCalls
           /\ LET got == getDefaultOption(models[i])
              IN  models' = [models EXCEPT ![i] =
                                [got.self EXCEPT !.calls = @ + 1, !.returned = got.ret]]
    /\ UNCHANGED <<storage, queried, deps, classes, theme, patches>>

\* Construction without a layout mode: any theme fragment, any default option.
Init ==
    /\ NoRegistry
    /\ NoModels
    /\ theme \in Options(2, Keys, Keys) \cup {Undefined}
    /\ \E d \in Options(3, Keys, Keys) \cup {Undefined} :
           classes = [c \in {"ComponentModel", "Plain"} |->
                         IF c = "Plain" THEN Declaration(d, "") ELSE ComponentModel]

Next == Create({"Plain"}, Options(1, Keys, Keys), 1)

Spec == Init /\ [][Next]_vars

\* Construction of a component with position and size fields, with and
\* without a layout mode.
LayoutInit ==
    /\ NoRegistry
    /\ NoModels
    /\ theme \in Options(2, LayoutKeys, {}) \cup {Undefined}
    /\ \E d \in Options(3, LayoutKeys, {}), layoutMode \in {"", "box", "ignoreSize"} :
           classes = [c \in {"ComponentModel", "Plain"} |->
                         IF c = "Plain" THEN Declaration(d, layoutMode) ELSE ComponentModel]

LayoutNext == Create({"Plain"}, Options(1, LayoutKeys, {}), 1)

SpecLayout == LayoutInit /\ [][LayoutNext]_vars

\* A constructed instance without a layout mode, then patched.
PatchInit ==
    /\ NoRegistry
    /\ theme = Undefined
    /\ classes = [c \in {"ComponentModel", "Plain"} |->
                     IF c = "Plain" THEN Declaration(Undefined, "") ELSE ComponentModel]
    /\ \E option \in Options(1, Keys, {"a"}) :
           models = << createComponent("Plain", option) >>
    /\ patches = <<>>

PatchNext == Patch

SpecPatch == PatchInit /\ [][PatchNext]_vars

\* Three classes made by extend, each with or without a defaultOption of its
\* own; instances of them are created and asked for their default option.
ExtendedClasses == {"Base", "Derived", "Derived2"}

DefaultInit ==
    /\ NoRegistry
    /\ NoModels
    /\ theme = Undefined
    /\ \E b \in Options(1, {"a"}, {"a"}) \cup {Undefined},
          d \in Options(2, {"a"}, {"a"}) \cup {Undefined},
          e \in Options(3, {"a"}, {"a"}) \cup {Undefined} :
           classes = [c \in {"ComponentModel"} \cup ExtendedClasses |->
                         CASE c = "Base" -> Extended("ComponentModel", b)
                           [] c = "Derived" -> Extended("Base", d)
                           [] c = "Derived2" -> Extended("Derived", e)
                           [] OTHER -> ComponentModel]

DefaultNext ==
    \/ Create(ExtendedClasses, {EmptyObject}, MaxModels)
    \/ CallGetDefaultOption

SpecDefault == DefaultInit /\ [][DefaultNext]_vars

\* The registry: component kinds register, then dependencies are resolved.
DepInit ==
    /\ NoRegistry
    /\ NoModels
    /\ theme = Undefined
    /\ classes = [c \in {"ComponentModel"} |-> ComponentModel]

DepNext == Register \/ GetDependencies

SpecDeps == DepInit /\ [][DepNext]_vars

\* ------------------------------------------------------------------------
\* Claims about getDependencies, checked under SpecDeps.
\* ------------------------------------------------------------------------

\* The normalized declared list of a main type, read off the registry.
declaredMains(componentType) ==
    mapToMain(concatAll(getClassesByMainType(componentType)))

called == queried # <<>>

\* C3: for every registry state and every main type other than "dataset",
\* the result of getDependencies contains "dataset".
C3_DatasetAlwaysIncluded ==
    (called /\ queried # <<"dataset">>) => \E i \in 1..Len(deps) : deps[i] = "dataset"

\* C3 witness: a main type with registered subtypes, none of which declares
\* dataset, was queried and dataset is in the result.
C3_Witness ==
    /\ queried = <<"grid">>
    /\ getClassesByMainType(queried) # <<>>
    /\ declaredMains(queried) = <<"axis">>
    /\ deps = <<"dataset", "axis">>

C5_PrependedExactlyWhenAbsent ==
    called =>
        deps = IF queried # <<"dataset">> /\ indexOf(declaredMains(queried), "dataset") < 0
               THEN <<"dataset">> \o declaredMains(queried)
               ELSE declaredMains(queried)

\* C6 (as claimed): a main type with no registered class yields the empty
\* result.
C6_UnregisteredYieldsEmpty ==
    (called /\ getClassesByMainType(queried) = <<>>) => deps = <<>>

\* C6 (amended): a main type with no registered class does not fail and
\* yields only the implicit dataset dependency, and the empty result when the
\* main type is "dataset" itself.
C6_UnregisteredYieldsOnlyDataset ==
    (called /\ getClassesByMainType(queried) = <<>>) =>
        deps = IF queried = <<"dataset">> THEN <<>> ELSE <<"dataset">>

\* C6 witness: classes are registered, none under the queried main type.
C6_Witness ==
    /\ queried = <<"grid">>
    /\ storage # <<>>
    /\ getClassesByMainType(queried) = <<>>
    /\ deps = <<"dataset">>

\* ------------------------------------------------------------------------
\* Claims about the option merges, stated over a list of sources.
\* ------------------------------------------------------------------------

Min(S) == CHOOSE x \in S : \A y \in S : x <= y
Max(S) == CHOOSE x \in S : \A y \in S : x >= y

\* The sources of the list that define key k, and every key any defines.
definers(srcs, k) == { i \in 1..Len(srcs) : hasProp(srcs[i], k) }
unionKeys(srcs) == UNION { DOMAIN srcs[i].o : i \in 1..Len(srcs) }

\* The nested object made of the plain objects that the sources in `group`
\* hold under k, each nested key taken from the source pick chooses.
nestedOf(srcs, k, group, pick(_)) ==
    Obj([j \in UNION { DOMAIN srcs[i].o[k].o : i \in group } |->
            srcs[pick({ i \in group : j \in DOMAIN srcs[i].o[k].o })].o[k].o[j]])

\* Earlier sources win (a defaulting pass): the value of the first source
\* defining k; if that is a plain object, it is filled, nested key by nested
\* key, from the plain objects the later sources hold under k.
heldFirstWins(srcs, k) ==
    LET top == srcs[Min(definers(srcs, k))].o[k]
    IN  IF ~isObject(top) THEN top
        ELSE nestedOf(srcs, k, { i \in definers(srcs, k) : isObject(srcs[i].o[k]) }, Min)

\* Later sources win (a patch): the value of the last source defining k; if
\* that is a plain object, it is merged, nested key by nested key, over the
\* plain object the key held before.
heldLastWins(srcs, k) ==
    LET ds  == definers(srcs, k)
        top == srcs[Max(ds)].o[k]
    IN  IF ~isObject(top) THEN top
        ELSE nestedOf(srcs, k,
                      { i \in ds : \A i2 \in ds : i2 >= i => isObject(srcs[i2].o[k]) }, Max)

noLayout(m) == classes[m.ctor].layoutMode = ""

\* user option, theme fragment, the class's default option: highest first
initSources(m) == << m.input, theme, classes[m.ctor].defaultOption >>

\* C1 (as claimed): after construction without a layout mode each key holds
\* the user's value if the user defined it, else the theme's, else the
\* default option's.
C1_KeyHoldsHighestSource ==
    \A n \in 1..Len(models) :
        noLayout(models[n]) =>
            models[n].option =
                Obj([k \in unionKeys(initSources(models[n])) |->
                        initSources(models[n])[Min(definers(initSources(models[n]), k))].o[k]])

\* C1 (amended): each key holds the value of the highest source defining it
\* (user > theme > default) when that value is not a plain object; when it is a
\* plain object the key holds the recursive merge, by the same precedence, of
\* that object with the plain objects the lower sources give for the key.
C1_PrecedenceWithNestedMerge ==
    \A n \in 1..Len(models) :
        noLayout(models[n]) =>
            models[n].option =
                Obj([k \in unionKeys(initSources(models[n])) |->
                        heldFirstWins(initSources(models[n]), k)])

\* C1 witness: all three sources take part, at both levels.
C1_Witness ==
    /\ Len(models) = 1
    /\ noLayout(models[1])
    /\ models[1].input = Obj([a |-> Obj([x |-> Prim(1)])])
    /\ theme = Obj([a |-> Obj([x |-> Prim(2), y |-> Prim(2)]), b |-> Prim(2)])
    /\ classes["Plain"].defaultOption = Obj([a |-> Prim(3), b |-> Prim(3)])
    /\ models[1].option = Obj([a |-> Obj([x |-> Prim(1), y |-> Prim(2)]), b |-> Prim(2)])

\* The option construction gave the instance, then the patches, oldest first.
patchSources(m) == << createComponent(m.ctor, m.input).option >> \o patches

RECURSIVE declaredChain(_)
declaredChain(clz) ==
    IF clz = "" THEN <<>>
    ELSE declaredChain(classes[clz].superClass)
             \o (IF classes[clz].has THEN << classes[clz].defaultOption >> ELSE <<>>)

\* C7 (as claimed): for an extended class, each key of getDefaultOption's
\* result holds the value declared by the most derived class declaring it.
C7_MostDerivedValueWins ==
    \A n \in 1..Len(models) :
        (isExtendedClass(models[n].ctor) /\ models[n].calls > 0) =>
            models[n].returned =
                Obj([k \in unionKeys(declaredChain(models[n].ctor)) |->
                        declaredChain(models[n].ctor)
                            [Max(definers(declaredChain(models[n].ctor), k))].o[k]])

\* C7 (amended): the result is the merge of the declared defaultOption
\* objects from the most base class to the most derived, classes declaring
\* none skipped: a key holds the most derived declaration when that is not a
\* plain object, and a plain object is merged recursively over the plain
\* object inherited for the key.
C7_ChainMergedBaseToDerived ==
    \A n \in 1..Len(models) :
        (isExtendedClass(models[n].ctor) /\ models[n].calls > 0) =>
            models[n].returned =
                Obj([k \in unionKeys(declaredChain(models[n].ctor)) |->
                        heldLastWins(declaredChain(models[n].ctor), k)])

\* C7 witness: the middle class declares nothing; the most derived class
\* overrides one nested key and inherits the other.
C7_Witness ==
    \E n \in 1..Len(models) :
        /\ models[n].ctor = "Derived2"
        /\ models[n].calls > 0
        /\ classes["Base"].defaultOption = Obj([a |-> Obj([x |-> Prim(1), y |-> Prim(1)])])
        /\ ~classes["Derived"].has
        /\ classes["Derived2"].defaultOption = Obj([a |-> Obj([x |-> Prim(3)])])
        /\ models[n].returned = Obj([a |-> Obj([x |-> Prim(3), y |-> Prim(1)])])

RECURSIVE walksOf(_, _)
walksOf(ctor, n) ==
    IF n = 0 THEN 0
    ELSE walksOf(ctor, n - 1) + (IF models[n].ctor = ctor THEN models[n].walks ELSE 0)

positions(log, entry) == { i \in 1..Len(log) : log[i] = entry }

C10_SnapshotBeforeMerges ==
    \A n \in 1..Len(models) :
        LET m == models[n]
            pure == merge(merge(m.input, theme, FALSE), classes[m.ctor].defaultOption, FALSE)
        IN  IF noLayout(m)
            THEN m.option = pure
            ELSE /\ DOMAIN m.inputPositionParams.o =
                        { name \in LOCATION_PARAMS : hasProp(m.input, name) }
                 /\ \A name \in DOMAIN m.inputPositionParams.o :
                        m.inputPositionParams.o[name] = m.input.o[name]
                 /\ m.option = mergeLayoutParam(pure, m.inputPositionParams, classes[m.ctor].layoutMode)

\* C10 witness: the user gives only a width, the default option gives left
\* and right; the snapshot holds the width alone and the reconciliation
\* drops the default's right.
C10_Witness ==
    /\ Len(models) = 1
    /\ classes["Plain"].layoutMode = "box"
    /\ models[1].input = Obj([width |-> Prim(1)])
    /\ classes["Plain"].defaultOption = Obj([left |-> Prim(3), right |-> Prim(3)])
    /\ models[1].inputPositionParams = Obj([width |-> Prim(1)])
    /\ models[1].option.o["left"] = Prim(3)
    /\ models[1].option.o["right"] = Undefined

====
